---- MODULE Spec2Model ----
(***************************************************************************)
(* Model of qaoa_maxcut.py: the Max-Cut cost-operator builder              *)
(* (create_maxcut_operator), the solution decoder (state_to_binary) and    *)
(* the module-level script that runs build -> solve -> decode -> report.   *)
(*                                                                         *)
(* Numbers.  Edge weights and operator coefficients are Python floats; the *)
(* model represents a float x by the integer 4*x (quarter units), so that  *)
(* weight 1.0 is 4 and its coefficient 1.0/2 = 0.5 is 2.  Every weight the *)
(* model draws is even in quarter units, hence w / 2 is exact.             *)
(*                                                                         *)
(* Strings are sequences of one-character strings; Python lists are        *)
(* sequences (Python position p is sequence index p + 1).                  *)
(***************************************************************************)
EXTENDS Integers, Sequences, FiniteSets, TLC

VARIABLES
    pc,             \* position of the running script / of the harness call
    G,              \* the graph: [nodes |-> set of node ids, edges |-> G.edges]
    weights,        \* dict (i, j) -> weight
    operator,       \* value bound at line 42 / returned by the builder call
    result,         \* value bound at line 43 (solver result)
    optimal_value,  \* value bound at line 44
    solution,       \* list bound at line 45 / outcome of the decoder call,
                    \* as [kind |-> "ok", bits |-> the list]
    stdout,         \* lines printed so far
    files,          \* files written so far: name -> content
    solver_calls,   \* number of times line 43 invoked the solver
    state,          \* decoder harness: argument `state`
    num_nodes,      \* decoder harness: argument `num_nodes`
    labelings       \* builder harness: state index -> decoded labeling

vars == <<pc, G, weights, operator, result, optimal_value, solution, stdout,
          files, solver_calls, state, num_nodes, labelings>>

\* a name no value has been bound to yet
None == [kind |-> "None"]

\* ------------------------------------------------------------------ bounds

MaxN == 3          \* builder harness: graphs of up to MaxN nodes
MaxEdges == 2      \* builder harness: graphs of up to MaxEdges edges
MaxBits == 4       \* decoder harness: num_nodes in 0..MaxBits

\* ------------------------------------------------------- Python primitives

\* The default of weights.get((i, j), 1.0): 1.0 in quarter units.
DefaultWeight == 4

\* The weight of every edge of the built-in graph (line 18): 1.0.
BuiltinWeight == 4

\* dict.get(key, default)
DictGet(d, key, default) == IF key \in DOMAIN d THEN d[key] ELSE default

\* A Python list index i is legal on a list of length n iff -n <= i < n ...
IndexOk(i, n) == -n <= i /\ i < n

\* ... and a negative one counts from the end.
IndexPos(i, n) == IF i >= 0 THEN i ELSE n + i

RECURSIVE Pow2(_)
Pow2(k) == IF k <= 0 THEN 1 ELSE 2 * Pow2(k - 1)

RECURSIVE SumSeq(_)
SumSeq(s) == IF s = <<>> THEN 0 ELSE Head(s) + SumSeq(Tail(s))

\* mutant: the division by two is dropped
HalfDropped(w) == w

\* w / 2 on a float that is even in quarter units
Half(w) == w \div 2

\* --------------------------------------------------- create_maxcut_operator

NumberOfNodes(g) == Cardinality(g.nodes)

\* mutant: the second 'Z' (pauli_string[j] = 'Z') is never stored
PauliStringOneZ(i, j, n) ==
    [p \in 1..n |-> IF p - 1 = IndexPos(i, n) THEN "Z" ELSE "I"]

\* lines 27-30: ['I'] * n with 'Z' stored at list indices i and j
PauliString(i, j, n) ==
    [p \in 1..n |-> IF p - 1 = IndexPos(i, n) \/ p - 1 = IndexPos(j, n)
                    THEN "Z" ELSE "I"]

\* line 26
EdgeWeight(w, e) == DictGet(w, <<e[1], e[2]>>, DefaultWeight)

\* lines 21-32.  The loop raises IndexError at the first edge whose endpoint
\* is not a legal list index; otherwise the (term, coeff) pairs, in the order
\* of G.edges, are handed to SparsePauliOp.from_list.
CreateMaxcutOperator(g, w) ==
    LET n == NumberOfNodes(g)
    IN  IF \E k \in 1..Len(g.edges) :
               ~IndexOk(g.edges[k][1], n) \/ ~IndexOk(g.edges[k][2], n)
        THEN [kind |-> "IndexError", terms |-> <<>>]
        ELSE [kind |-> "ok",
              terms |-> [k \in 1..Len(g.edges) |->
                           [term  |-> PauliString(g.edges[k][1], g.edges[k][2], n),
                            coeff |-> Half(EdgeWeight(w, g.edges[k]))]]]

\* ----------------------------------------------------------- state_to_binary

Digit(b) == IF b = 0 THEN "0" ELSE "1"

\* binary digits of k >= 0, most significant first ("0" for 0)
RECURSIVE BinDigits(_)
BinDigits(k) == IF k < 2 THEN <<Digit(k)>>
                ELSE BinDigits(k \div 2) \o <<Digit(k % 2)>>

Zeros(m) == [p \in 1..m |-> "0"]

\* mutant: format(state, 'b'), the zero padding is lost
FormatBinUnpadded(st, width) ==
    (IF st < 0 THEN <<"-">> ELSE <<>>) \o BinDigits(IF st < 0 THEN -st ELSE st)

\* format(state, f'0{width}b'): sign, then zeros up to the width, then digits
FormatBin(st, width) ==
    LET mag    == IF st < 0 THEN -st ELSE st
        digits == BinDigits(mag)
        sign   == IF st < 0 THEN <<"-">> ELSE <<>>
    IN  sign \o Zeros(width - Len(sign) - Len(digits)) \o digits

\* int(x) on a one-character string
IntOk(ch) == ch \in {"0", "1"}

\* mutant: bool(x) in place of int(x), every character is truthy
IntOfTruthy(ch) == 1

IntOf(ch) == IF ch = "1" THEN 1 ELSE 0

\* mutant: the characters are read from the right, least significant first
StateToBinaryReversed(st, n) ==
    LET str == FormatBin(st, n)
    IN  IF \E p \in 1..Len(str) : ~IntOk(str[p])
        THEN [kind |-> "ValueError", bits |-> <<>>]
        ELSE [kind |-> "ok",
              bits |-> [p \in 1..Len(str) |-> IntOf(str[Len(str) + 1 - p])]]

\* lines 35-36
StateToBinary(st, n) ==
    LET str == FormatBin(st, n)
    IN  IF \E p \in 1..Len(str) : ~IntOk(str[p])
        THEN [kind |-> "ValueError", bits |-> <<>>]
        ELSE [kind |-> "ok", bits |-> [p \in 1..Len(str) |-> IntOf(str[p])]]

\* ------------------------------------------------------------- the script

\* lines 16-17, as G.edges reports them: networkx lists each undirected edge
\* once, from the endpoint that was added to the graph first, so the edge
\* added as (3, 0) is reported as (0, 3).
BuiltinG ==
    [nodes |-> {0, 1, 2, 3},
     edges |-> << <<0, 1>>, <<0, 3>>, <<1, 2>>, <<1, 3>>, <<2, 3>> >>]

SeqRange(s) == {s[k] : k \in 1..Len(s)}

\* line 18
BuiltinWeights == [e \in SeqRange(BuiltinG.edges) |-> BuiltinWeight]

AbsVal(x) == IF x < 0 THEN -x ELSE x

\* The solver's eigenvalue is an expectation value of the operator, so its
\* magnitude is at most the sum of the magnitudes of the coefficients.
CoeffBound(op) ==
    SumSeq([k \in 1..Len(op.terms) |-> AbsVal(op.terms[k].coeff)])

\* f"{v:.2f}" of a float held in quarter units: sign, whole part, hundredths
Format2f(v) ==
    LET h == AbsVal(v) * 25
    IN  [neg |-> v < 0, whole |-> h \div 100, cents |-> h % 100]

InitScript ==
    /\ pc = "line42"
    /\ G = BuiltinG
    /\ weights = BuiltinWeights
    /\ operator = None
    /\ result = None
    /\ optimal_value = None
    /\ solution = None
    /\ stdout = <<>>
    /\ files = <<>>
    /\ solver_calls = 0
    /\ state = None
    /\ num_nodes = None
    /\ labelings = None

\* line 42
BuildOperator ==
    /\ pc = "line42"
    /\ LET op == CreateMaxcutOperator(G, weights)
       IN  /\ operator' = op
           /\ pc' = IF op.kind = "ok" THEN "line43" ELSE "aborted"
    /\ UNCHANGED <<G, weights, result, optimal_value, solution, stdout, files,
                   solver_calls, state, num_nodes, labelings>>

\* line 43, the solver returns: an eigenvalue and a best measured state index
SolveReturns ==
    /\ pc = "line43"
    /\ \E e \in -CoeffBound(operator)..CoeffBound(operator),
          s \in 0..(Pow2(NumberOfNodes(G)) - 1) :
          result' = [eigenvalue |-> [real |-> e, imag |-> 0],
                     best_measurement |-> [state |-> s]]
    /\ solver_calls' = solver_calls + 1
    /\ pc' = "line44"
    /\ UNCHANGED <<G, weights, operator, optimal_value, solution, stdout, files,
                   state, num_nodes, labelings>>

\* mutant: the exception is caught and the solver is called again
SolveRaisesRetried ==
    /\ pc = "line43"
    /\ solver_calls < 2
    /\ solver_calls' = solver_calls + 1
    /\ pc' = "line43"
    /\ UNCHANGED <<G, weights, operator, result, optimal_value, solution, stdout,
                   files, state, num_nodes, labelings>>

\* line 43, the solver raises: the exception is not caught, the script ends
SolveRaises ==
    /\ pc = "line43"
    /\ solver_calls' = solver_calls + 1
    /\ pc' = "aborted"
    /\ UNCHANGED <<G, weights, operator, result, optimal_value, solution, stdout,
                   files, state, num_nodes, labelings>>

\* line 44
TakeOptimalValue ==
    /\ pc = "line44"
    /\ optimal_value' = -result.eigenvalue.real
    /\ pc' = "line45"
    /\ UNCHANGED <<G, weights, operator, result, solution, stdout, files,
                   solver_calls, state, num_nodes, labelings>>

\* line 45
DecodeSolution ==
    /\ pc = "line45"
    /\ LET r == StateToBinary(result.best_measurement.state, NumberOfNodes(G))
       IN  IF r.kind = "ok"
           THEN solution' = r /\ pc' = "line56"
           ELSE solution' = solution /\ pc' = "aborted"
    /\ UNCHANGED <<G, weights, operator, result, optimal_value, stdout, files,
                   solver_calls, state, num_nodes, labelings>>

\* line 56
PrintValue ==
    /\ pc = "line56"
    /\ stdout' = Append(stdout, <<"Optimal Cut Value: ", Format2f(optimal_value)>>)
    /\ pc' = "line57"
    /\ UNCHANGED <<G, weights, operator, result, optimal_value, solution, files,
                   solver_calls, state, num_nodes, labelings>>

\* line 57
PrintConfiguration ==
    /\ pc = "line57"
    /\ stdout' = Append(stdout, <<"Best Configuration: ", solution.bits>>)
    /\ pc' = "line58"
    /\ UNCHANGED <<G, weights, operator, result, optimal_value, solution, files,
                   solver_calls, state, num_nodes, labelings>>

\* lines 48-54, called at line 58: solution[node] raises IndexError when node
\* is no legal index of solution; otherwise the drawing is saved.
PlotGraph ==
    /\ pc = "line58"
    /\ IF \A node \in G.nodes : IndexOk(node, Len(solution.bits))
       THEN /\ files' = [f \in {"maxcut_solution.png"} |->
                           [colors |-> [node \in G.nodes |->
                                          IF solution.bits[IndexPos(node, Len(solution.bits)) + 1] = 0
                                          THEN "r" ELSE "b"],
                            title  |-> <<"Max-Cut Solution (Value: ",
                                         Format2f(optimal_value), ")">>]]
            /\ pc' = "done"
       ELSE /\ files' = files
            /\ pc' = "aborted"
    /\ UNCHANGED <<G, weights, operator, result, optimal_value, solution, stdout,
                   solver_calls, state, num_nodes, labelings>>

Next ==
    \/ BuildOperator
    \/ SolveReturns
    \/ SolveRaises
    \/ TakeOptimalValue
    \/ DecodeSolution
    \/ PrintValue
    \/ PrintConfiguration
    \/ PlotGraph

Init == InitScript

Spec == Init /\ [][Next]_vars

\* ------------------------------------------------------ builder harness
\* create_maxcut_operator called on every small graph and weight dict.

\* weights the harness stores explicitly: 0.5 and 1.5
WeightVals == {2, 6}

\* Node sets of n nodes: 0..n-1, or 0..n-2 plus one node whose id is not in
\* [0, n) (networkx takes any integer as a node id).
NodeSets(n) ==
    {0..(n - 1)} \cup {(0..(n - 2)) \cup {x} : x \in {-1, n, -(n + 1)}}

OrientedPairs(nodes) == {e \in nodes \X nodes : e[1] # e[2]}

PairKey(e) == IF e[1] < e[2] THEN <<e[1], e[2]>> ELSE <<e[2], e[1]>>

KeyLess(a, b) == a[1] < b[1] \/ (a[1] = b[1] /\ a[2] < b[2])

\* G.edges lists every undirected edge once, in the orientation the node
\* insertion order gives it.  The order of the list carries no meaning for
\* the operator, so the lists are drawn up to permutation.
EdgeLists(nodes) ==
    UNION {{es \in [1..k -> OrientedPairs(nodes)] :
              \A a \in 1..k, b \in 1..k :
                  a < b => KeyLess(PairKey(es[a]), PairKey(es[b]))}
           : k \in 0..MaxEdges}

Graphs ==
    UNION {{[nodes |-> ns, edges |-> es] : es \in EdgeLists(ns)}
           : ns \in UNION {NodeSets(n) : n \in 1..MaxN}}

Reversed(e) == <<e[2], e[1]>>

\* How the dict holds the weight of one edge: not at all, under the key
\* G.edges reports, or under the reversed key.
WeightEntries == {<<"none", 0>>} \cup ({"fwd", "rev"} \X WeightVals)

EntryKey(e, c) == IF c[1] = "fwd" THEN e ELSE Reversed(e)

DictOf(es, ch) ==
    LET held == {k \in 1..Len(es) : ch[k][1] # "none"}
    IN  [key \in {EntryKey(es[k], ch[k]) : k \in held} |->
            LET k == CHOOSE k \in held : EntryKey(es[k], ch[k]) = key
            IN  ch[k][2]]

WeightDicts(es) == {DictOf(es, ch) : ch \in [1..Len(es) -> WeightEntries]}

InitBuilder ==
    /\ pc = "builder_call"
    /\ G \in Graphs
    /\ weights \in WeightDicts(G.edges)
    /\ operator = None
    /\ result = None
    /\ optimal_value = None
    /\ solution = None
    /\ stdout = <<>>
    /\ files = <<>>
    /\ solver_calls = 0
    /\ state = None
    /\ num_nodes = None
    /\ labelings = None

\* operator = create_maxcut_operator(G, weights)
CallCreateMaxcutOperator ==
    /\ pc = "builder_call"
    /\ operator' = CreateMaxcutOperator(G, weights)
    /\ pc' = "builder_ret"
    /\ UNCHANGED <<G, weights, result, optimal_value, solution, stdout, files,
                   solver_calls, state, num_nodes, labelings>>

\* state_to_binary(s, G.number_of_nodes()) for every basis state index s, as
\* line 45 decodes whichever state the solver measured best
DecodeBasisStates ==
    /\ pc = "builder_ret"
    /\ operator.kind = "ok"
    /\ labelings' = [s \in 0..(Pow2(NumberOfNodes(G)) - 1) |->
                        StateToBinary(s, NumberOfNodes(G))]
    /\ pc' = "builder_done"
    /\ UNCHANGED <<G, weights, operator, result, optimal_value, solution, stdout,
                   files, solver_calls, state, num_nodes>>

NextBuilder == CallCreateMaxcutOperator \/ DecodeBasisStates

SpecBuilder == InitBuilder /\ [][NextBuilder]_vars

\* ------------------------------------------------------ decoder harness
\* state_to_binary called on every small (state, num_nodes).

InitDecoder ==
    /\ pc = "decoder_call"
    /\ num_nodes \in 0..MaxBits
    /\ state \in (-MaxBits)..Pow2(num_nodes + 1)
    /\ G = None
    /\ weights = None
    /\ operator = None
    /\ result = None
    /\ optimal_value = None
    /\ solution = None
    /\ stdout = <<>>
    /\ files = <<>>
    /\ solver_calls = 0
    /\ labelings = None

\* solution = state_to_binary(state, num_nodes)
CallStateToBinary ==
    /\ pc = "decoder_call"
    /\ solution' = StateToBinary(state, num_nodes)
    /\ pc' = "decoder_ret"
    /\ UNCHANGED <<G, weights, operator, result, optimal_value, stdout, files,
                   solver_calls, state, num_nodes, labelings>>

NextDecoder == CallStateToBinary

SpecDecoder == InitDecoder /\ [][NextDecoder]_vars

\* =================================================================== claims

\* ---- vocabulary of the claims

\* the graph's nodes are 0..n-1
NodesAreIndices(g) == g.nodes = 0..(NumberOfNodes(g) - 1)

\* binary labelings of the nodes
Labelings(g) == [g.nodes -> {0, 1}]

\* weight of the edges of g whose endpoints x labels differently
CutWeight(g, w, x) ==
    SumSeq([k \in 1..Len(g.edges) |->
              IF x[g.edges[k][1]] # x[g.edges[k][2]]
              THEN EdgeWeight(w, g.edges[k]) ELSE 0])

TotalWeight(g, w) ==
    SumSeq([k \in 1..Len(g.edges) |-> EdgeWeight(w, g.edges[k])])

\* string positions (0-based) at which a term holds 'Z'
ZPositions(term) == {p - 1 : p \in {q \in 1..Len(term) : term[q] = "Z"}}

\* value of the operator on a labeling: coefficient times +1 when the labels
\* at the term's 'Z' positions agree, -1 when they differ
OperatorValue(op, x) ==
    SumSeq([k \in 1..Len(op.terms) |->
              IF Cardinality({x[p] : p \in ZPositions(op.terms[k].term)}) <= 1
              THEN op.terms[k].coeff ELSE -op.terms[k].coeff])

Bit(s, q) == (s \div Pow2(q)) % 2

\* eigenvalue of the operator at basis state s in the solver library's
\* convention: the rightmost character of a term acts on bit 0 of s
Eigenvalue(op, s) ==
    SumSeq([k \in 1..Len(op.terms) |->
              LET t    == op.terms[k].term
                  ones == {p \in ZPositions(t) : Bit(s, Len(t) - 1 - p) = 1}
              IN  IF Cardinality(ones) % 2 = 0
                  THEN op.terms[k].coeff ELSE -op.terms[k].coeff])

\* the labeling a decoded sequence gives: node i gets the label at position i
LabelingOf(g, bits) == [i \in g.nodes |-> bits[i + 1]]

MaxCutValue(g, w) ==
    CHOOSE c \in {CutWeight(g, w, x) : x \in Labelings(g)} :
        \A x \in Labelings(g) : CutWeight(g, w, x) <= c

MinEigenvalue(op, n) ==
    CHOOSE v \in {Eigenvalue(op, s) : s \in 0..(Pow2(n) - 1)} :
        \A s \in 0..(Pow2(n) - 1) : v <= Eigenvalue(op, s)

Built == pc \in {"builder_ret", "builder_done"}

\* ---- C1
\* C1: for every graph on nodes 0..n-1 and every binary labeling of its nodes,
\* the value of the built operator on the labeling is (sum of all edge
\* weights)/2 minus the weight of the cut; hence a labeling minimises the
\* operator value exactly when it maximises the cut weight.
C1_ValueIsHalfTotalMinusCut ==
    (Built /\ NodesAreIndices(G)) =>
        /\ operator.kind = "ok"
        /\ \A x \in Labelings(G) :
               2 * OperatorValue(operator, x)
                   = TotalWeight(G, weights) - 2 * CutWeight(G, weights, x)
        /\ \A x \in Labelings(G) :
               (\A y \in Labelings(G) :
                    OperatorValue(operator, x) <= OperatorValue(operator, y))
               <=> (\A y \in Labelings(G) :
                        CutWeight(G, weights, y) <= CutWeight(G, weights, x))

\* a graph on 0..n-1 with two edges of different weights has been built
C1_Witness ==
    /\ Built
    /\ NodesAreIndices(G)
    /\ operator.kind = "ok"
    /\ Len(G.edges) = 2
    /\ EdgeWeight(weights, G.edges[1]) # EdgeWeight(weights, G.edges[2])

\* ---- C2
\* C2: the builder emits exactly one term per edge; the term of edge (i, j)
\* has length n, 'Z' at exactly string positions i and j, 'I' elsewhere, and
\* its coefficient is exactly half the weight the dict holds for (i, j), the
\* weight being 1.0 when the dict holds none.
C2_OneTermPerEdge ==
    (Built /\ NodesAreIndices(G)) =>
        /\ operator.kind = "ok"
        /\ Len(operator.terms) = Len(G.edges)
        /\ \A k \in 1..Len(G.edges) :
               LET e == G.edges[k]
                   t == operator.terms[k]
               IN  /\ Len(t.term) = NumberOfNodes(G)
                   /\ \A p \in 1..Len(t.term) :
                          t.term[p] = IF p - 1 \in {e[1], e[2]} THEN "Z" ELSE "I"
                   /\ 2 * t.coeff = (IF e \in DOMAIN weights
                                     THEN weights[e] ELSE DefaultWeight)

\* an operator was built for a graph with a weighted and an unweighted edge
C2_Witness ==
    /\ Built
    /\ NodesAreIndices(G)
    /\ operator.kind = "ok"
    /\ \E k \in 1..Len(G.edges) : G.edges[k] \in DOMAIN weights
    /\ \E k \in 1..Len(G.edges) : G.edges[k] \notin DOMAIN weights

\* ---- C7
EdgeOutOfRange(g) ==
    \E k \in 1..Len(g.edges) :
        \E q \in 1..2 : g.edges[k][q] \notin 0..(NumberOfNodes(g) - 1)

\* C7: the builder fails, and returns no operator, whenever some edge
\* references a node index outside [0, n).
C7_RejectsOutOfRangeEdge ==
    (Built /\ EdgeOutOfRange(G)) => operator.kind # "ok"

\* ---- C9
\* C9: reading the terms in the solver library's convention, the eigenvalue
\* of the built operator at every basis state s is (sum of all edge
\* weights)/2 minus the cut weight of the labeling state_to_binary(s, n).
C9_EncoderDecoderAgree ==
    (pc = "builder_done" /\ NodesAreIndices(G)) =>
        \A s \in 0..(Pow2(NumberOfNodes(G)) - 1) :
            /\ labelings[s].kind = "ok"
            /\ Len(labelings[s].bits) = NumberOfNodes(G)
            /\ 2 * Eigenvalue(operator, s)
                   = TotalWeight(G, weights)
                     - 2 * CutWeight(G, weights, LabelingOf(G, labelings[s].bits))

\* every basis state of a 3-node graph with an edge was decoded, among them a
\* state whose bit pattern is not a palindrome
C9_Witness ==
    /\ pc = "builder_done"
    /\ NodesAreIndices(G)
    /\ NumberOfNodes(G) = 3
    /\ Len(G.edges) >= 1
    /\ labelings[1].bits = <<0, 0, 1>>

\* ---- C10
\* the weight of the undirected edge: held under either orientation
UndirectedWeight(w, e) ==
    IF e \in DOMAIN w THEN w[e]
    ELSE IF Reversed(e) \in DOMAIN w THEN w[Reversed(e)]
    ELSE DefaultWeight

\* C10: the coefficient of an undirected edge is half its weight whichever
\* orientation keys the weight in the dict; the default is used only when the
\* dict holds the edge under neither orientation.
C10_OrientationIndependent ==
    (Built /\ NodesAreIndices(G) /\ operator.kind = "ok") =>
        \A k \in 1..Len(G.edges) :
            2 * operator.terms[k].coeff = UndirectedWeight(weights, G.edges[k])

\* ---- C3
InRange == pc = "decoder_ret" /\ 0 <= state /\ state < Pow2(num_nodes)

EncodeLsbFirst(bits) ==
    SumSeq([p \in 1..Len(bits) |-> bits[p] * Pow2(p - 1)])

\* re-encoding with the first output position as the most significant bit
RECURSIVE EncodeMsbFirst(_)
EncodeMsbFirst(bits) ==
    IF bits = <<>> THEN 0
    ELSE 2 * EncodeMsbFirst(SubSeq(bits, 1, Len(bits) - 1)) + bits[Len(bits)]

C6_RejectsOutOfRange ==
    (pc = "decoder_ret" /\ (state >= Pow2(num_nodes) \/ state < 0)) =>
        solution.kind # "ok"

\* ---- C5
\* C5: on the built-in graph, when the solver returns the true minimum
\* eigenvalue, the value printed as "Optimal Cut Value" is the maximum cut
\* weight of the graph.
C5_ReportsMaxCut ==
    (/\ Len(stdout) >= 1
     /\ result.eigenvalue.real = MinEigenvalue(operator, NumberOfNodes(G)))
        => /\ optimal_value = MaxCutValue(G, weights)
           /\ stdout[1] = <<"Optimal Cut Value: ", Format2f(MaxCutValue(G, weights))>>

\* ---- C8
SolverFailed == solver_calls >= 1 /\ result = None

\* C8: the stages happen in the order build, solve, decode, print two lines,
\* write maxcut_solution.png; the solver is invoked once and never retried;
\* a failed solver call ends the run with nothing printed and nothing written.
C8_StagesInOrder ==
    /\ solver_calls <= 1
    /\ solver_calls >= 1 => operator # None
    /\ result # None => solver_calls = 1
    /\ solution # None => result # None
    /\ stdout # <<>> => solution # None
    /\ Len(stdout) <= 2
    /\ Len(stdout) >= 1 => stdout[1][1] = "Optimal Cut Value: "
    /\ Len(stdout) = 2 => stdout[2][1] = "Best Configuration: "
    /\ files # <<>> => (Len(stdout) = 2 /\ DOMAIN files = {"maxcut_solution.png"})
    /\ pc = "done" => (files # <<>> /\ solver_calls = 1)
    /\ SolverFailed => (pc = "aborted" /\ stdout = <<>> /\ files = <<>>)

\* the solver call failed and the run is over
C8_Witness == SolverFailed /\ pc = "aborted"

====
